---- MODULE Spec2Model ----
(***************************************************************************)
(* Two-tier conversational memory of dify-on-wechat: ShortTermMemory       *)
(* (common/short_term_memory.py), LongTermMemory                           *)
(* (common/long_term_memory.py) and MemoryManager                          *)
(* (common/memory_manager.py).                                             *)
(*                                                                         *)
(* Spec     : worker threads calling MemoryManager.add_message             *)
(*            concurrently; one step per shared-state access.              *)
(* SpecSeq  : the same steps with a single caller (no interleaving).       *)
(* SpecBuf  : one ShortTermMemory object driven through its public         *)
(*            methods, one call at a time.                                 *)
(***************************************************************************)
EXTENDS Integers, Sequences, FiniteSets, TLC

\* ------------------------------------------------------------------ bounds
NumThreads == 2        \* worker threads calling add_message
MaxCalls == 2          \* add_message calls started in one run
MaxSize == 4           \* ShortTermMemory.max_size (50 in the source)
RecentK == 1           \* conf "recent_k_memory" (20 in the source)
SummarizeLength == 3   \* conf "memory_summarize_length" (10 in the source)
MaxStoreOps == 4       \* method calls on the store in SpecStore
MaxWeeks == 2          \* weeks the clock runs
MaxTopK == 2           \* largest top_k of a query
MaxOps == 6            \* method calls on the buffer in SpecBuf

Threads == 1..NumThreads
Sessions == {"s1"}
\* every session id of a run: "s2" only ever gets a LongTermMemory
AllSessions == Sessions \cup {"s2"}
NoneN == -1            \* the argument None of get_recent/get_back/delete_back
Week == 7              \* days: 7 * 24 * 3600 seconds
CleanInterval == 7     \* days: MemoryManager.clean_interval, 7 * 24 * 3600 s
ThresholdDays == 90    \* clean_outdated's default threshold_days
MinImportance == 3     \* clean_outdated's default min_importance, in tenths
Importance == 12       \* importance=1.2 of line 148, in tenths

\* ----------------------------------------------------------------- helpers
Drop(s, n) == IF n >= Len(s) THEN <<>> ELSE SubSeq(s, n + 1, Len(s))
Take(s, n) == IF n >= Len(s) THEN s ELSE SubSeq(s, 1, n)
Last(s, n) == IF n >= Len(s) THEN s ELSE SubSeq(s, Len(s) - n + 1, Len(s))
MapSeq(F(_), s) == [i \in 1..Len(s) |-> F(s[i])]
Range(q) == {q[i] : i \in 1..Len(q)}

\* `n or len(self.messages)`: None and 0 are both falsy
OrLen(n, len) == IF n = NoneN \/ n = 0 THEN len ELSE n

\* ----------------------------------------------- short_term_memory.py (pure)
_message_to_dict(content, from_self, t) ==
    [actual_user_nickname |-> IF from_self THEN "bot" ELSE "alice",
     content |-> content,
     create_time |-> 0,
     formated_time |-> t]

\* f"{nick}({formated_time}): {content}", kept as its parts
_dict_to_str(m) ==
    <<m.actual_user_nickname, "(", m.formated_time, "): ", m.content>>

\* mutant: a deque built without maxlen
DequeAppend_unbounded(d, x) == Append(d, x)
\* mutant: a full buffer refuses the new item instead of dropping the oldest
DequeAppend_keep_old(d, x) == IF Len(d) >= MaxSize THEN d ELSE Append(d, x)

\* deque(maxlen=max_size).append: a full deque discards its leftmost item
DequeAppend(d, x) ==
    IF Len(d) >= MaxSize THEN Append(Drop(d, Len(d) - MaxSize + 1), x)
    ELSE Append(d, x)

\* deque(iterable, maxlen=max_size): keeps the last max_size items
RECURSIVE DequeFrom(_, _)
DequeFrom(d, items) ==
    IF items = <<>> THEN d
    ELSE DequeFrom(DequeAppend(d, Head(items)), Tail(items))

\* json.dump(list(self.messages)): each dict as its key/value pairs, in the
\* order the keys were inserted
TurnKeys == <<"actual_user_nickname", "content", "create_time", "formated_time">>
DumpDict(m) == [i \in 1..Len(TurnKeys) |-> <<TurnKeys[i], m[TurnKeys[i]]>>]
\* mutant: the dump loses the content of every turn
JsonDump_no_content(msgs) ==
    [i \in 1..Len(msgs) |->
        [j \in 1..Len(TurnKeys) |->
            <<TurnKeys[j], IF TurnKeys[j] = "content" THEN 0
                           ELSE msgs[i][TurnKeys[j]]>>]]
JsonDump(msgs) == [i \in 1..Len(msgs) |-> DumpDict(msgs[i])]
\* json.load: each object back to a dict
LoadDict(p) ==
    [k \in {p[i][1] : i \in 1..Len(p)} |->
        p[CHOOSE i \in 1..Len(p) : p[i][1] = k][2]]
JsonLoad(doc) == [i \in 1..Len(doc) |-> LoadDict(doc[i])]

\* _load on a fresh deque: a missing or unreadable file leaves it empty
Load(ok, data) == IF ok THEN DequeFrom(<<>>, JsonLoad(data)) ELSE <<>>

get_recent(msgs, n) == MapSeq(_dict_to_str, Last(msgs, OrLen(n, Len(msgs))))
get_back(msgs, n) == MapSeq(_dict_to_str, Take(msgs, OrLen(n, Len(msgs))))
\* mutant: the slice [:-n] instead of [n:], the newest turns go
DeleteBackRest_newest(msgs, n) ==
    DequeFrom(<<>>, Take(msgs, Len(msgs) - OrLen(n, Len(msgs))))
\* line 74: the deque that replaces self.messages
DeleteBackRest(msgs, n) == DequeFrom(<<>>, Drop(msgs, OrLen(n, Len(msgs))))

\* ------------------------------------------------ long_term_memory.py (pure)
IsSpace(c) == c = " "
RECURSIVE LStrip(_)
LStrip(s) == IF s # <<>> /\ IsSpace(Head(s)) THEN LStrip(Tail(s)) ELSE s
RECURSIVE RStrip(_)
RStrip(s) ==
    IF s # <<>> /\ IsSpace(s[Len(s)]) THEN RStrip(SubSeq(s, 1, Len(s) - 1)) ELSE s
Strip(s) == RStrip(LStrip(s))

\* stand-in for SentenceTransformer.encode: the text's length as a 1-vector,
\* pointing the other way for a text that starts with "n"
Encode(content) ==
    <<IF content # <<>> /\ content[1] = "n" THEN 0 - Len(content)
      ELSE Len(content)>>

\* lines 74-79: the two early `return -1` of LongTermMemory.add
AddRejected(content, available) == Strip(content) = <<>> \/ ~available

\* lines 74-99: what add returns, -1 or cursor.lastrowid
AddResult(content, available, seq) ==
    IF Strip(content) = <<>> THEN NoneN
    ELSE IF ~available THEN NoneN
    ELSE seq + 1

\* lines 91-94: the inserted row (access_count DEFAULT 0, id AUTOINCREMENT)
NewRow(id, content, importance, t) ==
    [id |-> id, content |-> content, vector |-> Encode(content),
     timestamp |-> t, importance |-> importance,
     last_accessed |-> t, access_count |-> 0]

\* lines 174-176: _dict_to_str of a scored memory
ltm_dict_to_str(m) == <<"(time: ", m.created_time, "):", m.content>>

Abs(x) == IF x < 0 THEN 0 - x ELSE x
RECURSIVE Pow2(_)
Pow2(n) == IF n <= 0 THEN 1 ELSE 2 * Pow2(n - 1)
\* line 137: np.dot(q, v) / (norm(q) * norm(v)) of two 1-vectors
Cosine(q, v) == (q[1] * v[1]) \div (Abs(q[1]) * Abs(v[1]))

\* Times are in days, and the clock moves a week at a time, so that every
\* power of 0.5 in a score is a fraction of ScoreUnit; importance is in
\* tenths. Score is the score of line 147 times 100 * ScoreUnit.
ScoreUnit == Pow2(Week * MaxWeeks)
Score(row, query_vector, t) ==
    LET similarity == Cosine(query_vector, row.vector)
        time_factor == ScoreUnit \div Pow2((t - row.timestamp) \div Week)
        recency_factor == ScoreUnit \div Pow2(t - row.last_accessed)
        frequency_factor ==
            (IF row.access_count < 10 THEN row.access_count ELSE 10) * ScoreUnit
    IN  similarity * (60 * ScoreUnit + 2 * row.importance * ScoreUnit
                        + 10 * time_factor
                        + 10 * recency_factor + frequency_factor)

\* lines 149-156: the dict appended to `memories` for one row
Scored(row, query_vector, t) ==
    [id |-> row.id, content |-> row.content,
     score |-> Score(row, query_vector, t),
     created_time |-> row.timestamp, importance |-> row.importance]

\* mutant: an entry goes in front of the entries of equal score
InsertDesc_ties_first(sorted, m) ==
    LET before == {i \in 0..Len(sorted) :
                      \A j \in 1..i : sorted[j].score > m.score}
        k == CHOOSE i \in before : \A j \in before : j <= i
    IN  SubSeq(sorted, 1, k) \o <<m>> \o SubSeq(sorted, k + 1, Len(sorted))
\* line 159: list.sort(key=score, reverse=True) is stable: an entry goes
\* behind every entry of greater or equal score that came before it
InsertDesc(sorted, m) ==
    LET before == {i \in 0..Len(sorted) :
                      \A j \in 1..i : sorted[j].score >= m.score}
        k == CHOOSE i \in before : \A j \in before : j <= i
    IN  SubSeq(sorted, 1, k) \o <<m>> \o SubSeq(sorted, k + 1, Len(sorted))
RECURSIVE SortDesc(_)
SortDesc(ms) ==
    IF ms = <<>> THEN <<>>
    ELSE InsertDesc(SortDesc(SubSeq(ms, 1, Len(ms) - 1)), ms[Len(ms)])

\* lines 119-160: the rows as SELECT gives them (by rowid), scored, sorted,
\* cut to top_k
TopMemories(rows, query_vector, top_k, t) ==
    Take(SortDesc([i \in 1..Len(rows) |-> Scored(rows[i], query_vector, t)]),
         top_k)

\* mutant: the UPDATE of lines 163-167 touches every row
Touch_all(rows, ids, t) ==
    [i \in 1..Len(rows) |->
        [rows[i] EXCEPT !.last_accessed = t, !.access_count = @ + 1]]
\* lines 163-167: UPDATE ... WHERE id = ? for every top memory
Touch(rows, ids, t) ==
    [i \in 1..Len(rows) |->
        IF rows[i].id \in ids
        THEN [rows[i] EXCEPT !.last_accessed = t, !.access_count = @ + 1]
        ELSE rows[i]]

\* mutant: outdated OR unimportant
Outdated_either(row, threshold_days, min_importance, t) ==
    \/ row.timestamp < t - threshold_days
    \/ row.importance < min_importance
\* line 207: WHERE timestamp < threshold_time AND importance < min_importance
Outdated(row, threshold_days, min_importance, t) ==
    /\ row.timestamp < t - threshold_days
    /\ row.importance < min_importance

RECURSIVE Filter(_, _, _, _)
\* the rows a DELETE with the WHERE clause of line 207 leaves
Filter(rows, threshold_days, min_importance, t) ==
    IF rows = <<>> THEN <<>>
    ELSE IF Outdated(Head(rows), threshold_days, min_importance, t)
         THEN Filter(Tail(rows), threshold_days, min_importance, t)
         ELSE <<Head(rows)>>
                  \o Filter(Tail(rows), threshold_days, min_importance, t)

\* ------------------------------------------------------------------- state
VARIABLES
    short_term_memories,  \* session id -> ShortTermMemory instance (0: absent)
    long_term_memories,   \* session id -> LongTermMemory instance (0: absent)
    stm_created,          \* session id -> ShortTermMemory objects constructed
    ltm_created,          \* session id -> LongTermMemory objects constructed
    messages,             \* session id -> instance -> its deque self.messages
    file,                 \* session id -> contents of short_term_<id>.json
    file_ok,              \* session id -> the file exists and parses
    db,                   \* session id -> rows of table memories, by id
    db_seq,               \* session id -> last AUTOINCREMENT id handed out
    model_available,      \* SENTENCE_TRANSFORMERS_AVAILABLE
    now,                  \* time.time()
    calls,                \* add_message calls started
    frame,                \* thread -> its program counter and locals
    ltm_keys,             \* keys of long_term_memories in insertion order
    last_clean_time,      \* MemoryManager.last_clean_time
    bg,                   \* the background thread: its program counter, locals
    stop,                 \* the host has asked the background task to stop
    ret,                  \* the last direct method call and what it returned
    ops,                  \* SpecBuf, SpecStore: method calls made
    inserted,             \* SpecBuf: turns added since an empty construction
    fresh                 \* SpecBuf: built empty, only add() called since

vars == <<short_term_memories, long_term_memories, stm_created, ltm_created,
          messages, file, file_ok, db, db_seq, model_available, now, calls,
          frame, ltm_keys, last_clean_time, bg, stop, ret, ops, inserted,
          fresh>>

registry == <<short_term_memories, long_term_memories, stm_created, ltm_created,
              ltm_keys>>
bgvars == <<last_clean_time, bg, stop>>
bufvars == <<ops, inserted, fresh>>
store == <<db, db_seq>>

Instances == 1..NumThreads

\* what self.bot.reply can come back with: the call raises; content that is
\* not JSON; JSON that is no object (a list, a string, a number); an object
\* without the key "summarize"; {"summarize": [statement, ...]}
StatementLists ==
    {<<>>, << <<"a">> >>, << <<"a">>, <<"b">> >>, << <<"a">>, <<" ">> >>,
     << <<" ">> >>}
Responses ==
    [kind : {"raise", "badjson", "nondict"}, items : {<<>>}]
    \cup [kind : {"summarize"}, items : StatementLists]
    \cup [kind : {"object"}, items : {<< <<"k">> >>}]
NoResult == [kind |-> "none", items |-> <<>>]

\* no direct call made yet
NoCall == [op |-> "none", arg |-> 0, value |-> 0, ids |-> <<>>]
\* the background thread at the top of its loop (line 161)
BgIdle == [pc |-> "wake", now |-> 0, size |-> 0, iter |-> 0, swept |-> FALSE,
           known |-> {}, tried |-> {}]

IdleFrame ==
    [pc |-> "idle", session_id |-> "s1", message |-> 0, from_self |-> FALSE,
     caller |-> "none", stm |-> 0, sum_stm |-> 0, ltm |-> 0,
     recent_messages |-> <<>>, result |-> NoResult, idx |-> 0,
     base |-> 0, rest |-> <<>>, outcome |-> "none"]

\* a turn already in the persisted file when the process starts
OldTurn(j) == _message_to_dict(j, FALSE, 0)
\* content of the c-th message handed to add_message
NewContent(c) == MaxSize + 1 + c
\* the host stores the user's message, then the bot's reply, and so on
FromSelf(c) == c % 2 = 0

Init ==
    /\ short_term_memories = [s \in Sessions |-> 0]
    /\ long_term_memories = [s \in AllSessions |-> 0]
    /\ stm_created = [s \in Sessions |-> 0]
    /\ ltm_created = [s \in AllSessions |-> 0]
    /\ messages = [s \in Sessions |-> [i \in Instances |-> <<>>]]
    /\ \E n \in 0..(MaxSize + 1) :
           file = [s \in Sessions |-> JsonDump([j \in 1..n |-> OldTurn(j)])]
    /\ file_ok \in [Sessions -> BOOLEAN]
    /\ \A s \in Sessions : ~file_ok[s] => file[s] = <<>>
    /\ db = [s \in AllSessions |-> <<>>]
    /\ db_seq = [s \in AllSessions |-> 0]
    /\ model_available \in BOOLEAN
    /\ now = 0
    /\ calls = 0
    /\ frame = [t \in Threads |-> IdleFrame]
    /\ ltm_keys = <<>>
    /\ last_clean_time = 0
    /\ bg = BgIdle
    /\ stop = FALSE
    /\ ret = NoCall
    /\ ops = 0
    /\ inserted = <<>>
    /\ fresh = FALSE


\* --------------------------------------------- memory_manager.py, per thread
Sid(t) == frame[t].session_id
Jump(t, f) == frame' = [frame EXCEPT ![t] = f]
Goto(t, label) == Jump(t, [frame[t] EXCEPT !.pc = label])
\* add_message returns to the host (outcome records through which `return`)
\* or an exception leaves it (outcome records what raised)
Return(t, how) == Jump(t, [IdleFrame EXCEPT !.outcome = how])
Raise(t, what) == Jump(t, [IdleFrame EXCEPT !.outcome = what])
Raised(o) == o \in {"raised_reply", "raised_parse"}

\* line 70: the host calls add_message(message, from_self)
AddMessage(t) ==
    /\ frame[t].pc = "idle"
    /\ calls < MaxCalls
    /\ calls' = calls + 1
    /\ \E s \in Sessions :
           Jump(t, [IdleFrame EXCEPT !.pc = "gs_test", !.session_id = s,
                                     !.message = NewContent(calls + 1),
                                     !.from_self = FromSelf(calls + 1),
                                     !.caller = "add_message"])
    /\ UNCHANGED <<registry, messages, file, file_ok, store, model_available,
                   now, bufvars, bgvars, ret>>

\* line 60: `if session_id not in self.short_term_memories`
GetStmTest(t) ==
    /\ frame[t].pc = "gs_test"
    /\ Goto(t, IF short_term_memories[Sid(t)] = 0 THEN "gs_new" ELSE "gs_ret")
    /\ UNCHANGED <<registry, messages, file, file_ok, store, model_available,
                   now, calls, bufvars, bgvars, ret>>

\* line 61: construct ShortTermMemory (lines 41-53, _load) and register it
GetStmNew(t) ==
    /\ frame[t].pc = "gs_new"
    /\ LET s == Sid(t)
           k == stm_created[s] + 1
       IN  /\ stm_created' = [stm_created EXCEPT ![s] = k]
           /\ messages' = [messages EXCEPT ![s][k] = Load(file_ok[s], file[s])]
           /\ short_term_memories' = [short_term_memories EXCEPT ![s] = k]
    /\ Goto(t, "gs_ret")
    /\ UNCHANGED <<long_term_memories, ltm_created, ltm_keys, file, file_ok,
                   store, model_available, now, calls, bufvars, bgvars, ret>>

\* line 62: `return self.short_term_memories[session_id]`, to line 72 or 108
GetStmRet(t) ==
    /\ frame[t].pc = "gs_ret"
    /\ LET v == short_term_memories[Sid(t)]
       IN  IF frame[t].caller = "add_message"
           THEN Jump(t, [frame[t] EXCEPT !.stm = v, !.pc = "append"])
           ELSE Jump(t, [frame[t] EXCEPT !.sum_stm = v, !.pc = "gl_test"])
    /\ UNCHANGED <<registry, messages, file, file_ok, store, model_available,
                   now, calls, bufvars, bgvars, ret>>

\* line 73 -> ShortTermMemory.add line 57: self.messages.append(...)
StmAppend(t) ==
    /\ frame[t].pc = "append"
    /\ LET s == Sid(t)
           i == frame[t].stm
           m == _message_to_dict(frame[t].message, frame[t].from_self, now)
       IN  messages' = [messages EXCEPT ![s][i] = DequeAppend(@, m)]
    /\ Goto(t, "save")
    /\ UNCHANGED <<registry, file, file_ok, store, model_available, now, calls,
                   bufvars, bgvars, ret>>

\* line 58 -> _save lines 87-90: rewrite the whole file from the deque
StmSave(t) ==
    /\ frame[t].pc = "save"
    /\ file' = [file EXCEPT ![Sid(t)] = JsonDump(messages[Sid(t)][frame[t].stm])]
    /\ file_ok' = [file_ok EXCEPT ![Sid(t)] = TRUE]
    /\ Goto(t, "len")
    /\ UNCHANGED <<registry, messages, store, model_available, now, calls,
                   bufvars, bgvars, ret>>

\* line 76: `if len(stm) > conf().get("recent_k_memory", 20)`
Triggered(len) == len > RecentK

\* lines 76-77: call _summarize_short_term_memory or return
CheckLen(t) ==
    /\ frame[t].pc = "len"
    /\ IF Triggered(Len(messages[Sid(t)][frame[t].stm]))
       THEN Jump(t, [frame[t] EXCEPT !.pc = "gs_test", !.caller = "_summarize"])
       ELSE Return(t, "not_triggered")
    /\ UNCHANGED <<registry, messages, file, file_ok, store, model_available,
                   now, calls, bufvars, bgvars, ret>>

\* d[key] = value on a dict: a new key goes last, a present key stays put
DictKeysSet(keys, s) ==
    IF \E i \in 1..Len(keys) : keys[i] = s THEN keys ELSE Append(keys, s)

\* line 66: `if session_id not in self.long_term_memories`
GetLtmTest(t) ==
    /\ frame[t].pc = "gl_test"
    /\ Goto(t, IF long_term_memories[Sid(t)] = 0 THEN "gl_new" ELSE "gl_ret")
    /\ UNCHANGED <<registry, messages, file, file_ok, store, model_available,
                   now, calls, bufvars, bgvars, ret>>

\* line 67: construct LongTermMemory (lines 25-61; the table is created only
\* if it does not exist, so the rows are untouched) and register it
GetLtmNew(t) ==
    /\ frame[t].pc = "gl_new"
    /\ LET s == Sid(t)
           k == ltm_created[s] + 1
       IN  /\ ltm_created' = [ltm_created EXCEPT ![s] = k]
           /\ long_term_memories' = [long_term_memories EXCEPT ![s] = k]
           /\ ltm_keys' = DictKeysSet(ltm_keys, s)
    /\ Goto(t, "gl_ret")
    /\ UNCHANGED <<short_term_memories, stm_created, messages, file, file_ok,
                   store, model_available, now, calls, bufvars, bgvars, ret>>

\* line 68: `return self.long_term_memories[session_id]`, to line 109
GetLtmRet(t) ==
    /\ frame[t].pc = "gl_ret"
    /\ Jump(t, [frame[t] EXCEPT !.ltm = long_term_memories[Sid(t)],
                                !.pc = "get_back"])
    /\ UNCHANGED <<registry, messages, file, file_ok, store, model_available,
                   now, calls, bufvars, bgvars, ret>>

\* mutant: off by one in the comparison
TooShort_off_by_one(recent, length) == Len(recent) < length - 1
\* line 113: `if len(recent_messages) < length`
TooShort(recent, length) == Len(recent) < length

\* lines 112-114: read the oldest turns; return if there are too few
GetBack(t) ==
    /\ frame[t].pc = "get_back"
    /\ LET recent == get_back(messages[Sid(t)][frame[t].sum_stm], SummarizeLength)
       IN  IF TooShort(recent, SummarizeLength)
           THEN Return(t, "too_short")
           ELSE Jump(t, [frame[t] EXCEPT !.recent_messages = recent,
                                         !.pc = "reply"])
    /\ UNCHANGED <<registry, messages, file, file_ok, store, model_available,
                   now, calls, bufvars, bgvars, ret>>

\* lines 139-144: json.loads(summary), then summary.get("summarize", summary).
\* "badjson": JSONDecodeError, caught; "nondict": a JSON list, string or number
\* has no .get, AttributeError, not caught; "object": a JSON object without
\* the key "summarize" is kept itself, and line 146 iterates over its keys.
Parse(r) ==
    CASE r.kind = "badjson" -> [status |-> "return", summary |-> <<>>]
      [] r.kind = "nondict" -> [status |-> "raise", summary |-> <<>>]
      [] OTHER -> [status |-> "ok", summary |-> r.items]

\* the local `summary` after line 141
Summary(t) == Parse(frame[t].result).summary

\* lines 125-144: the summarization call comes back and is parsed; base is a
\* history variable, the last row id before this consolidation's inserts
Reply(t) ==
    /\ frame[t].pc = "reply"
    /\ \E r \in Responses :
         IF r.kind = "raise" THEN Raise(t, "raised_reply")
         ELSE LET p == Parse(r)
              IN  CASE p.status = "return" -> Return(t, "parse_error")
                    [] p.status = "raise" -> Raise(t, "raised_parse")
                    [] OTHER ->
                         Jump(t, [frame[t] EXCEPT
                                    !.result = r, !.idx = 1,
                                    !.base = db_seq[Sid(t)],
                                    !.pc = IF p.summary = <<>> THEN "del_read"
                                           ELSE "ltm_add"])
    /\ UNCHANGED <<registry, messages, file, file_ok, store, model_available,
                   now, calls, bufvars, bgvars, ret>>

\* lines 146-148 -> LongTermMemory.add lines 63-99, one loop iteration
LtmAdd(t) ==
    /\ frame[t].pc = "ltm_add"
    /\ LET s == Sid(t)
           content == Summary(t)[frame[t].idx]
       IN  IF AddRejected(content, model_available)
           THEN UNCHANGED store
           ELSE /\ db_seq' = [db_seq EXCEPT ![s] = @ + 1]
                /\ db' = [db EXCEPT ![s] =
                            Append(@, NewRow(db_seq[s] + 1, content, Importance, now))]
    /\ Jump(t, [frame[t] EXCEPT
                  !.idx = @ + 1,
                  !.pc = IF frame[t].idx = Len(Summary(t)) THEN "del_read"
                         ELSE "ltm_add"])
    /\ UNCHANGED <<registry, messages, file, file_ok, model_available, now,
                   calls, bufvars, bgvars, ret>>

\* line 149 -> delete_back lines 73-74: read the deque, build its replacement
DelRead(t) ==
    /\ frame[t].pc = "del_read"
    /\ Jump(t, [frame[t] EXCEPT
                  !.rest = DeleteBackRest(messages[Sid(t)][frame[t].sum_stm],
                                          SummarizeLength),
                  !.pc = "del_assign"])
    /\ UNCHANGED <<registry, messages, file, file_ok, store, model_available,
                   now, calls, bufvars, bgvars, ret>>

\* line 74: `self.messages = ...`
DelAssign(t) ==
    /\ frame[t].pc = "del_assign"
    /\ messages' = [messages EXCEPT ![Sid(t)][frame[t].sum_stm] = frame[t].rest]
    /\ Goto(t, "del_save")
    /\ UNCHANGED <<registry, file, file_ok, store, model_available, now, calls,
                   bufvars, bgvars, ret>>

\* line 75 -> _save, then delete_back, _summarize and add_message return
DelSave(t) ==
    /\ frame[t].pc = "del_save"
    /\ file' = [file EXCEPT ![Sid(t)] = JsonDump(messages[Sid(t)][frame[t].sum_stm])]
    /\ file_ok' = [file_ok EXCEPT ![Sid(t)] = TRUE]
    /\ Return(t, "consolidated")
    /\ UNCHANGED <<registry, messages, store, model_available, now, calls,
                   bufvars, bgvars, ret>>

Step(t) ==
    \/ AddMessage(t)
    \/ GetStmTest(t)
    \/ GetStmNew(t)
    \/ GetStmRet(t)
    \/ StmAppend(t)
    \/ StmSave(t)
    \/ CheckLen(t)
    \/ GetLtmTest(t)
    \/ GetLtmNew(t)
    \/ GetLtmRet(t)
    \/ GetBack(t)
    \/ Reply(t)
    \/ LtmAdd(t)
    \/ DelRead(t)
    \/ DelAssign(t)
    \/ DelSave(t)

Next == \E t \in Threads : Step(t)
Spec == Init /\ [][Next]_vars

\* one caller: every add_message runs to completion before the next starts
NextSeq == Step(1)
SpecSeq == Init /\ [][NextSeq]_vars

\* ------------------------------- short_term_memory.py, one object, one caller
B == "s1"
Buf == messages[B][1]
Built == stm_created[B] = 1
SetBuf(d) ==
    /\ messages' = [messages EXCEPT ![B][1] = d]
    /\ file' = [file EXCEPT ![B] = JsonDump(d)]
    /\ file_ok' = [file_ok EXCEPT ![B] = TRUE]

\* lines 89-102: get_memories as the lines of the block it returns
AllButLast(q) == IF q = <<>> THEN <<>> ELSE SubSeq(q, 1, Len(q) - 1)
Header == "[chat history (your replies are recorded as bot)]"
Marker == "[current conversation]"
get_memories(msgs, recent_top_k) ==
    <<Header>> \o AllButLast(get_recent(msgs, recent_top_k)) \o <<Marker>>

Called(op, arg, value) ==
    /\ ret' = [op |-> op, arg |-> arg, value |-> value, ids |-> <<>>]
    /\ ops' = ops + 1

\* lines 41-53: ShortTermMemory(session_id), _load
BufNew ==
    /\ stm_created[B] = 0
    /\ stm_created' = [stm_created EXCEPT ![B] = 1]
    /\ messages' = [messages EXCEPT ![B][1] = Load(file_ok[B], file[B])]
    /\ fresh' = (Load(file_ok[B], file[B]) = <<>>)
    /\ UNCHANGED <<short_term_memories, long_term_memories, ltm_created,
                   ltm_keys, file, file_ok, store, model_available, now, calls,
                   frame, ops, inserted, bgvars, ret>>

\* lines 55-58: add(message, from_self), with _save
BufAdd(fs) ==
    /\ Built /\ ops < MaxOps
    /\ LET m == _message_to_dict(NewContent(ops + 1), fs, now)
       IN  /\ SetBuf(DequeAppend(Buf, m))
           /\ inserted' = IF fresh THEN Append(inserted, m) ELSE inserted
    /\ Called("add", 0, 0)
    /\ UNCHANGED <<registry, store, model_available, now, calls, frame, fresh,
                   bgvars>>

\* lines 65-68: get_back(n)
BufGetBack(n) ==
    /\ Built /\ ops < MaxOps
    /\ Called("get_back", n, get_back(Buf, n))
    /\ UNCHANGED <<registry, messages, file, file_ok, store, model_available,
                   now, calls, frame, inserted, fresh, bgvars>>

\* memory_manager.py lines 84-102: get_memories(session_id, query, recent_top_k)
BufGetMemories(k) ==
    /\ Built /\ ops < MaxOps
    /\ Called("get_memories", k, get_memories(Buf, k))
    /\ UNCHANGED <<registry, messages, file, file_ok, store, model_available,
                   now, calls, frame, inserted, fresh, bgvars>>

\* lines 70-76: delete_back(n), with _save
BufDeleteBack(n) ==
    /\ Built /\ ops < MaxOps
    /\ SetBuf(DeleteBackRest(Buf, n))
    /\ Called("delete_back", n, get_back(Buf, n))
    /\ fresh' = FALSE
    /\ UNCHANGED <<registry, store, model_available, now, calls, frame, inserted,
                   bgvars>>

\* lines 82-85: clear(), with _save
BufClear ==
    /\ Built /\ ops < MaxOps
    /\ SetBuf(<<>>)
    /\ Called("clear", 0, 0)
    /\ fresh' = FALSE
    /\ UNCHANGED <<registry, store, model_available, now, calls, frame, inserted,
                   bgvars>>

Counts == {NoneN} \cup 0..(MaxSize + 1)

NextBuf ==
    \/ BufNew
    \/ \E fs \in BOOLEAN : BufAdd(fs)
    \/ \E n \in Counts : BufGetBack(n)
    \/ \E k \in 0..(MaxSize + 1) : BufGetMemories(k)
    \/ \E n \in Counts : BufDeleteBack(n)
    \/ BufClear
\* the buffer never uses the embedding model: its runs start with one loaded
InitBuf == Init /\ model_available
SpecBuf == InitBuf /\ [][NextBuf]_vars

\* -------------------------------------------- one LongTermMemory, one caller
\* everything a LongTermMemory method leaves alone
outside == <<short_term_memories, stm_created, messages, file, file_ok,
             model_available, calls, frame, inserted, fresh, bgvars>>
Rows == db[B]
Opened == ltm_created[B] = 1
SetRows(rows) == db' = [db EXCEPT ![B] = rows]
Ids(ms) == [i \in 1..Len(ms) |-> ms[i].id]

Contents == {<<"a">>, <<" ">>}
Queries == {<<"a">>, <<"n">>}
Importances == {MinImportance, Importance}
Lowered == {MinImportance - 1}
Thresholds == {0, Week}

StoreCalled(op, arg, value, ids) ==
    /\ ops < MaxStoreOps
    /\ ret' = [op |-> op, arg |-> arg, value |-> value, ids |-> ids]
    /\ ops' = ops + 1

\* lines 24-43: LongTermMemory(session_id), _init_db
StoreNew ==
    /\ ~Opened
    /\ ltm_created' = [ltm_created EXCEPT ![B] = 1]
    /\ long_term_memories' = [long_term_memories EXCEPT ![B] = 1]
    /\ ltm_keys' = DictKeysSet(ltm_keys, B)
    /\ UNCHANGED <<outside, store, now, ret, ops>>

\* lines 63-99: add(content, importance)
StoreAdd(content, importance) ==
    /\ Opened
    /\ StoreCalled("add", content,
                   AddResult(content, model_available, db_seq[B]), <<>>)
    /\ IF AddRejected(content, model_available)
       THEN UNCHANGED store
       ELSE /\ db_seq' = [db_seq EXCEPT ![B] = @ + 1]
            /\ SetRows(Append(Rows, NewRow(db_seq[B] + 1, content, importance,
                                           now)))
    /\ UNCHANGED <<outside, long_term_memories, ltm_created, ltm_keys, now>>

\* lines 101-172: query(query, top_k)
StoreQuery(q, top_k) ==
    /\ Opened
    /\ LET top == IF model_available
                  THEN TopMemories(Rows, Encode(q), top_k, now)
                  ELSE <<>>
       IN  /\ StoreCalled("query", <<q, top_k>>,
                          [i \in 1..Len(top) |-> ltm_dict_to_str(top[i])],
                          Ids(top))
           /\ SetRows(Touch(Rows, Range(Ids(top)), now))
    /\ UNCHANGED <<outside, long_term_memories, ltm_created, ltm_keys, db_seq,
                   now>>

\* lines 178-186: delete(memory_id)
StoreDelete(memory_id) ==
    /\ Opened
    /\ StoreCalled("delete", memory_id,
                   \E i \in 1..Len(Rows) : Rows[i].id = memory_id, <<>>)
    /\ SetRows(SelectSeq(Rows, LAMBDA r : r.id # memory_id))
    /\ UNCHANGED <<outside, long_term_memories, ltm_created, ltm_keys, db_seq,
                   now>>

\* lines 188-196: update_importance(memory_id, importance)
StoreUpdateImportance(memory_id, importance) ==
    /\ Opened
    /\ StoreCalled("update_importance", memory_id,
                   \E i \in 1..Len(Rows) : Rows[i].id = memory_id, <<>>)
    /\ SetRows([i \in 1..Len(Rows) |->
                   IF Rows[i].id = memory_id
                   THEN [Rows[i] EXCEPT !.importance = importance]
                   ELSE Rows[i]])
    /\ UNCHANGED <<outside, long_term_memories, ltm_created, ltm_keys, db_seq,
                   now>>

\* lines 198-213: clean_outdated(threshold_days, min_importance)
StoreCleanOutdated(threshold_days, min_importance) ==
    /\ Opened
    /\ LET kept == Filter(Rows, threshold_days, min_importance, now)
       IN  /\ StoreCalled("clean_outdated", <<threshold_days, min_importance>>,
                          Len(Rows) - Len(kept), <<>>)
           /\ SetRows(kept)
    /\ UNCHANGED <<outside, long_term_memories, ltm_created, ltm_keys, db_seq,
                   now>>

\* time.time() moves on by a week
Tick ==
    /\ now < Week * MaxWeeks
    /\ now' = now + Week
    /\ UNCHANGED <<outside, registry, store, ret, ops>>

NextStore ==
    \/ StoreNew
    \/ \E c \in Contents : \E i \in Importances : StoreAdd(c, i)
    \/ \E q \in Queries : \E k \in 0..MaxTopK : StoreQuery(q, k)
    \/ \E id \in 1..(db_seq[B] + 1) : StoreDelete(id)
    \/ \E id \in 1..(db_seq[B] + 1) :
          \E i \in Lowered : StoreUpdateImportance(id, i)
    \/ \E d \in Thresholds : \E i \in Importances : StoreCleanOutdated(d, i)
    \/ Tick
\* the store's runs start with no buffer file on disk
InitStore == Init /\ file_ok = [s \in Sessions |-> FALSE]
SpecStore == InitStore /\ [][NextStore]_vars

\* ------------------------------------------------- the background thread
\* everything the background thread and a registration leave alone
aside == <<short_term_memories, stm_created, messages, file, file_ok,
           model_available, calls, frame, ret, ops, inserted, fresh, db_seq>>

\* lines 64-68: get_long_term_memory(session_id) of a session not yet known,
\* called by a message-handling thread
Register(s) ==
    /\ long_term_memories[s] = 0
    /\ ltm_created' = [ltm_created EXCEPT ![s] = @ + 1]
    /\ long_term_memories' = [long_term_memories EXCEPT ![s] = ltm_created[s] + 1]
    /\ ltm_keys' = DictKeysSet(ltm_keys, s)
    /\ UNCHANGED <<aside, db, now, bgvars>>

\* lines 161-166: top of the loop; `now = time.time()` and the due test,
\* then the dict iterator of line 153 is created
BgWake ==
    /\ bg.pc = "wake"
    /\ IF now - last_clean_time >= CleanInterval
       THEN bg' = [pc |-> "sweep", now |-> now, size |-> Len(ltm_keys),
                   iter |-> 0, swept |-> TRUE, known |-> Range(ltm_keys),
                   tried |-> {}]
       ELSE bg' = [bg EXCEPT !.pc = "sleep", !.now = now, !.swept = FALSE]
    /\ UNCHANGED <<aside, registry, db, now, last_clean_time, stop>>

\* lines 153-154, 166, 167-168: one step of `for ... in
\* self.long_term_memories.items()`. The iterator raises RuntimeError when
\* the dict has changed size; clean_outdated may raise (sqlite3 error); either
\* exception leaves the loop and is logged at line 168. After the last item
\* line 166 sets last_clean_time.
BgSweep(fails) ==
    /\ bg.pc = "sweep"
    /\ IF Len(ltm_keys) # bg.size
       THEN /\ bg' = [bg EXCEPT !.pc = "sleep"]
            /\ UNCHANGED <<db, last_clean_time>>
       ELSE IF bg.iter = bg.size
       THEN /\ last_clean_time' = bg.now
            /\ bg' = [bg EXCEPT !.pc = "sleep"]
            /\ UNCHANGED db
       ELSE LET s == ltm_keys[bg.iter + 1]
            IN  IF fails
                THEN /\ bg' = [bg EXCEPT !.tried = @ \cup {s}, !.pc = "sleep"]
                     /\ UNCHANGED <<db, last_clean_time>>
                ELSE /\ bg' = [bg EXCEPT !.tried = @ \cup {s}, !.iter = @ + 1]
                     /\ db' = [db EXCEPT ![s] =
                                 Filter(@, ThresholdDays, MinImportance, now)]
                     /\ UNCHANGED last_clean_time
    /\ UNCHANGED <<aside, registry, now, stop>>

\* lines 169-171: time.sleep(3600) returns, back to `while True`
BgSleep ==
    /\ bg.pc = "sleep"
    /\ bg' = [bg EXCEPT !.pc = "wake"]
    /\ UNCHANGED <<aside, registry, db, now, last_clean_time, stop>>

\* the host asks the background task to stop; run_background_tasks has no
\* flag or event to read, and the host keeps no handle on the daemon thread
HostStop ==
    /\ ~stop
    /\ stop' = TRUE
    /\ UNCHANGED <<aside, registry, db, now, last_clean_time, bg>>

NextSweep ==
    \/ \E s \in AllSessions : Register(s)
    \/ Tick
    \/ BgWake
    \/ \E fails \in BOOLEAN : BgSweep(fails)
    \/ BgSleep
    \/ HostStop
SpecSweep == InitStore /\ [][NextSweep]_vars

\* ================================================================== claims
\* thread t takes a step from the program point `label`
Does(t, label) == frame[t].pc = label /\ frame'[t] # frame[t]
\* the states Summarizing and Committing of a consolidation
InFlight == {"reply", "ltm_add", "del_read", "del_assign", "del_save"}
\* the deque a consolidating thread works on
SumBuf(t) == messages[Sid(t)][frame[t].sum_stm]

\* C1 (as claimed): for every session id at most one ShortTermMemory and at
\* most one LongTermMemory object is ever constructed, and every add_message
\* call appends to the instance the registry holds.
C1_SingleCreation ==
    \A s \in Sessions :
        /\ stm_created[s] <= 1
        /\ ltm_created[s] <= 1
        /\ \A t \in Threads :
               (Sid(t) = s /\ frame[t].pc \in {"append", "save", "len"})
                   => frame[t].stm = short_term_memories[s]

\* C2 (as claimed): for every session id at most one consolidation is in the
\* states Summarizing/Committing at any time.
C2_SingleFlight ==
    \A s \in Sessions :
        Cardinality({t \in Threads : Sid(t) = s /\ frame[t].pc \in InFlight}) <= 1

\* C3 (as claimed): a consolidation in which LongTermMemory.add rejected at
\* least one statement does not remove turns: none of its steps changes the
\* buffer.
SomeAddRejected(t) ==
    \E i \in 1..Len(Summary(t)) : AddRejected(Summary(t)[i], model_available)
C3_PartialFailureKeepsTurns ==
    [][\A t \in Threads :
          (frame[t].pc \in InFlight /\ frame'[t] # frame[t] /\ SomeAddRejected(t))
              => messages' = messages]_vars

\* C4 (as claimed): a consolidation whose summarizer response does not have
\* the expected structure (here: valid JSON, an object without "summarize")
\* leaves the buffer unchanged: none of its steps removes a turn.
Unparseable(r) == r.kind \in {"badjson", "nondict", "object"}
C4_UnparseableKeepsBuffer ==
    [][\A t \in Threads :
          (frame[t].pc \in InFlight /\ frame'[t] # frame[t]
           /\ Unparseable(frame[t].result))
              => messages' = messages]_vars

\* C5: when the buffer held at least SummarizeLength turns and the response
\* was {"summarize": [k statements]}, all accepted by LongTermMemory.add, the
\* step that replaces the deque leaves it without exactly its SummarizeLength
\* oldest turns (empty if it held exactly that many), the removed turns are
\* the ones summarized, and the rows inserted since the consolidation began
\* are exactly k, one per statement in order, importance 1.2, access_count 0.
NewRows(t) == SelectSeq(db[Sid(t)], LAMBDA r : r.id > frame[t].base)
WellFormedAllAccepted(t) ==
    /\ frame[t].result.kind = "summarize"
    /\ ~SomeAddRejected(t)
C5_Consolidation ==
    [][\A t \in Threads :
          (Does(t, "del_assign") /\ WellFormedAllAccepted(t)) =>
              LET old == SumBuf(t)
                  new == messages'[Sid(t)][frame[t].sum_stm]
                  k == Len(Summary(t))
              IN  /\ Len(old) >= SummarizeLength
                  /\ Len(new) = Len(old) - SummarizeLength
                  /\ new = SubSeq(old, SummarizeLength + 1, Len(old))
                  /\ frame[t].recent_messages
                       = MapSeq(_dict_to_str, SubSeq(old, 1, SummarizeLength))
                  /\ Len(NewRows(t)) = k
                  /\ \A j \in 1..k :
                         /\ NewRows(t)[j].content = Summary(t)[j]
                         /\ NewRows(t)[j].importance = 12
                         /\ NewRows(t)[j].access_count = 0
                         /\ NewRows(t)[j].id = frame[t].base + j]_vars

\* C5 witness: two statements were stored and the deque, which held exactly
\* SummarizeLength turns, has been replaced by an empty one
C5_Witness ==
    \E t \in Threads :
        /\ frame[t].pc = "del_save"
        /\ WellFormedAllAccepted(t)
        /\ Len(Summary(t)) = 2
        /\ Len(NewRows(t)) = 2
        /\ SumBuf(t) = <<>>

\* C6: a consolidation that finds fewer than SummarizeLength turns returns at
\* once: the summarizer is not called (the thread is back at idle, not at
\* "reply"), nothing raised, and buffer, file and store are unchanged.
C6_ShortBufferNoOp ==
    [][\A t \in Threads :
          (Does(t, "get_back") /\ Len(SumBuf(t)) < SummarizeLength) =>
              /\ frame'[t].pc = "idle"
              /\ frame'[t].outcome = "too_short"
              /\ ~Raised(frame'[t].outcome)
              /\ messages' = messages
              /\ file' = file
              /\ db' = db /\ db_seq' = db_seq]_vars

\* C6 witness: a call came back through the short-buffer return with a
\* non-empty buffer below SummarizeLength
C6_Witness ==
    \E t \in Threads :
        /\ frame[t].outcome = "too_short"
        /\ \E i \in Instances :
               Len(messages["s1"][i]) > 0 /\ Len(messages["s1"][i]) < SummarizeLength

\* C7 (as claimed): a failure of the summarization call does not surface as a
\* failure of add_message.
C7_CallFailureSilent ==
    \A t \in Threads : frame[t].outcome # "raised_reply"

\* C8 (as claimed): the removal of the oldest turns loses no other turn: every
\* turn that is in the buffer behind the SummarizeLength oldest when the
\* deque is replaced is still in it afterwards.
C8_NoLostAppend ==
    [][\A t \in Threads :
          Does(t, "del_assign") =>
              Range(Drop(SumBuf(t), SummarizeLength))
                  \subseteq Range(messages'[Sid(t)][frame[t].sum_stm])]_vars

\* C9: no deque ever holds more than max_size turns, whatever the persisted
\* file held, and an add to a full buffer drops exactly the oldest turn.
C9_Capacity ==
    /\ [](\A s \in Sessions : \A i \in Instances : Len(messages[s][i]) <= MaxSize)
    /\ [][\A fs \in BOOLEAN :
             (BufAdd(fs) /\ Len(Buf) = MaxSize) =>
                 /\ Len(Buf') = MaxSize
                 /\ SubSeq(Buf', 1, MaxSize - 1) = SubSeq(Buf, 2, MaxSize)
                 /\ Buf'[MaxSize].content = NewContent(ops + 1)]_vars

\* C9 witness: a full buffer, loaded from a file longer than max_size, has
\* been added to
C9_Witness ==
    /\ Built
    /\ Len(Buf) = MaxSize
    /\ Buf[1] = OldTurn(3)
    /\ Buf[MaxSize].content = NewContent(1)

\* C10: after N + k adds (k > 0) to a buffer built empty, its length is N and
\* get_recent(N) is the rendering of the last N added turns, oldest first.
C10_Fifo ==
    (fresh /\ Len(inserted) > MaxSize) =>
        /\ Len(Buf) = MaxSize
        /\ get_recent(Buf, MaxSize)
             = [j \in 1..MaxSize |->
                    _dict_to_str(inserted[Len(inserted) - MaxSize + j])]

\* C10 witness: N + 2 adds after an empty construction
C10_Witness == fresh /\ Len(inserted) = MaxSize + 2

\* C11: after every completed add, delete_back or clear the session's file
\* holds the dump of the in-memory turn list, and loading it (what a new
\* ShortTermMemory of the same session does) gives an identical list.
C11_RoundTrip ==
    (Built /\ ret.op \in {"add", "delete_back", "clear"}) =>
        /\ file_ok[B]
        /\ file[B] = JsonDump(Buf)
        /\ Load(file_ok[B], file[B]) = Buf

\* C11 witness: a removal has left two or more turns, and they are on file
C11_Witness ==
    /\ Built
    /\ ret.op = "delete_back"
    /\ Len(Buf) >= 2
    /\ Load(file_ok[B], file[B]) = Buf

\* a completed call of a LongTermMemory method
StoreCall == ops' = ops + 1
\* the row of id `id` in rows
RowOf(rows, id) == rows[CHOOSE i \in 1..Len(rows) : rows[i].id = id]
HasRow(rows, id) == \E i \in 1..Len(rows) : rows[i].id = id

\* C12 (as claimed): a due sweep attempts clean_outdated on every session's
\* LongTermMemory in the registry, also when one of them fails and when a
\* session is registered during the sweep, before the thread goes to sleep.
C12_SweepReachesAll ==
    (bg.pc = "sleep" /\ bg.swept) => bg.known \subseteq bg.tried

\* C13 (as claimed): once the stop signal is raised, the background thread
\* does not start another sleep or another pass of its loop: its next step
\* from a tick boundary is to terminate.
C13_StopsWhenAsked ==
    [][(stop /\ bg.pc \in {"sleep", "wake"} /\ bg' # bg)
           => bg'.pc = "exited"]_vars

\* C14: a query sets last_accessed to now and adds 1 to access_count for
\* exactly the rows it returns; every other call (add, update_importance,
\* delete, clean_outdated) and every other row of a query keeps both fields.
C14_AccessStats ==
    [][StoreCall =>
          \A id \in 1..db_seq[B] :
              (HasRow(Rows, id) /\ HasRow(Rows', id)) =>
                  LET old == RowOf(Rows, id)
                      new == RowOf(Rows', id)
                  IN  IF ret'.op = "query" /\ id \in Range(ret'.ids)
                      THEN /\ new.last_accessed = now
                           /\ new.access_count = old.access_count + 1
                      ELSE /\ new.last_accessed = old.last_accessed
                           /\ new.access_count = old.access_count]_vars

\* C14 witness: a query a week after two adds returned one of the two rows,
\* and only that row's statistics moved
C14_Witness ==
    /\ ret.op = "query"
    /\ Len(ret.ids) = 1
    /\ Len(Rows) = 2
    /\ now > 0
    /\ \E i, j \in 1..2 :
          /\ Rows[i].id = ret.ids[1]
          /\ Rows[i].access_count = 1 /\ Rows[i].last_accessed = now
          /\ Rows[j].access_count = 0 /\ Rows[j].last_accessed = 0

\* C15: clean_outdated(threshold_days, min_importance) removes exactly the
\* rows whose age is greater than threshold_days and whose importance is
\* less than min_importance, keeps the others in place, and returns the
\* number of rows removed.
C15_Eviction ==
    [][(StoreCall /\ ret'.op = "clean_outdated") =>
          LET d == ret'.arg[1]
              m == ret'.arg[2]
          IN  /\ Rows' = SelectSeq(Rows,
                     LAMBDA r : ~(now - r.timestamp > d /\ r.importance < m))
              /\ ret'.value = Len(Rows) - Len(Rows')]_vars

\* C15 witness: clean_outdated(7, 1.2) removed one row and kept an old row
\* of importance 1.2 and a young row of importance 0.3
C15_Witness ==
    /\ ret.op = "clean_outdated"
    /\ ret.arg = <<Week, Importance>>
    /\ ret.value = 1
    /\ Len(Rows) = 2
    /\ now - Rows[1].timestamp > Week /\ Rows[1].importance = Importance
    /\ now - Rows[2].timestamp <= Week /\ Rows[2].importance = MinImportance

\* C16: a query returns at most top_k rows, in descending order of score
\* with rows of equal score in order of id, and no row left out scores
\* higher than a row returned.
C16_Ranking ==
    [][(StoreCall /\ ret'.op = "query" /\ model_available) =>
              LET q == ret'.arg[1]
                  k == ret'.arg[2]
                  ids == ret'.ids
                  sc(id) == Score(RowOf(Rows, id), Encode(q), now)
              IN  /\ Len(ids) <= k
                  /\ \A a \in 1..Len(ids) : HasRow(Rows, ids[a])
                  /\ \A a, b \in 1..Len(ids) :
                        a < b => \/ sc(ids[a]) > sc(ids[b])
                                 \/ /\ sc(ids[a]) = sc(ids[b])
                                    /\ ids[a] < ids[b]
                  /\ \A a \in 1..Len(ids) : \A i \in 1..Len(Rows) :
                        Rows[i].id \notin Range(ids)
                            => sc(ids[a]) >= sc(Rows[i].id)
                  /\ ret'.value =
                        [a \in 1..Len(ids) |->
                            ltm_dict_to_str(
                                Scored(RowOf(Rows, ids[a]), Encode(q), now))]]_vars

\* C16 witness: a query returned two rows that had the same score (same
\* age, importance and statistics), the lower id first
C16_Witness ==
    /\ ret.op = "query"
    /\ ret.ids = <<1, 2>>
    /\ Len(Rows) = 2
    /\ Rows[1].timestamp = Rows[2].timestamp
    /\ Rows[1].importance = Rows[2].importance
    /\ Rows[1].access_count = 1 /\ Rows[2].access_count = 1

\* C17 (as claimed): an add of whitespace-only content fails with an error
\* that differs from the one of an add made without an embedding model.
C17_DistinctRejections ==
    (ret.op = "add" /\ Strip(ret.arg) = <<>> /\ model_available) =>
        ret.value # AddResult(<<"a">>, FALSE, db_seq[B])

\* the lines of the turns q, as _dict_to_str renders them
Rendered(q) == [i \in 1..Len(q) |-> _dict_to_str(q[i])]
\* the k (at most) turns that precede the newest turn of q
BeforeNewest(q, k) ==
    IF Len(q) <= 1 \/ k <= 0 THEN <<>>
    ELSE SubSeq(q, IF k >= Len(q) - 1 THEN 1 ELSE Len(q) - k, Len(q) - 1)

\* C18 (as claimed): for every recent_top_k and every buffer, get_memories
\* returns the header, then exactly the recent_top_k - 1 most recent turns
\* before the newest one (oldest first), then the current-turn marker.
C18_ContextBlock ==
    (Built /\ ret.op = "get_memories") =>
        ret.value = <<Header>> \o Rendered(BeforeNewest(Buf, ret.arg - 1))
                               \o <<Marker>>

\* C19 (as claimed): for every n from 0 to the length, get_back(n) returns the
\* n oldest turns and changes nothing, and delete_back(n) returns them and
\* leaves the other turns in their order; n = 0 returns and removes nothing.
C19_OldestAccessors ==
    [][\A n \in 0..Len(Buf) :
          /\ BufGetBack(n) =>
                 /\ ret'.value = Rendered(Take(Buf, n))
                 /\ Buf' = Buf
          /\ BufDeleteBack(n) =>
                 /\ ret'.value = Rendered(Take(Buf, n))
                 /\ Buf' = Drop(Buf, n)]_vars

\* C20 (as claimed): in every interleaving, every turn that a consolidation
\* removes from the deque is one of the turns that consolidation read with
\* get_back and sent to the summarizer.
C20_RemovedWereSummarized ==
    [][\A t \in Threads :
          Does(t, "del_assign") =>
              \A m \in Range(SumBuf(t))
                         \ Range(messages'[Sid(t)][frame[t].sum_stm]) :
                  _dict_to_str(m) \in Range(frame[t].recent_messages)]_vars

====
